---- MODULE Spec2Model ----
(***************************************************************************)
(* Model of Converter.cpp (SRT to VTT converter).                          *)
(*                                                                         *)
(* Wide-character lines (wstring) are sequences of character codes.        *)
(* Narrow paths (string) are sequences of one-character strings.           *)
(*                                                                         *)
(* Four specifications share the module:                                   *)
(*   Spec      Converter::convertFile on a sequence of input lines         *)
(*   SpecLine  the body of the read loop applied to one line               *)
(*   SpecTime  the time frame branch of the loop on one time frame line    *)
(*   SpecDir   Converter::convertDirectory walking a directory tree        *)
(***************************************************************************)
EXTENDS Integers, Sequences, FiniteSets, TLC

VARIABLES
    \* convertFile (Spec)
    infile,         \* the lines getline will deliver, in order
    timeOffsetMs,   \* _timeOffsetMs
    inOk,           \* whether filepath can be opened for reading
    outOk,          \* whether outpath can be opened for writing
    pc,             \* position in convertFile
    nRead,          \* number of lines getline has delivered
    outfile,        \* the lines written to the output file
    ret,            \* the value convertFile returned
    \* one line through the loop body (SpecLine)
    lnLine, lnOffset, lnPc, lnOut,
    \* one time frame line (SpecTime)
    tfLine, tfOffset, tfPc, tfOut,
    \* convertDirectory (SpecDir)
    dirArg,         \* the dirpath argument of the outermost call
    recursive,      \* the recursive argument
    outputDir,      \* _outputDir
    outDirExists,   \* whether Utils::isDir(_outputDir) holds
    entriesLeft,    \* directory entries the file system may still reveal
    stack,          \* active convertDirectory calls, innermost last
    log,            \* what the run has done so far
    dPc,            \* position of the outermost call
    dRet            \* the value the outermost convertDirectory returned

fileVars == <<infile, timeOffsetMs, inOk, outOk, pc, nRead, outfile, ret>>
lineVars == <<lnLine, lnOffset, lnPc, lnOut>>
timeVars == <<tfLine, tfOffset, tfPc, tfOut>>
dirVars  == <<dirArg, recursive, outputDir, outDirExists, entriesLeft, stack, log, dPc, dRet>>
vars     == <<fileVars, lineVars, timeVars, dirVars>>

(***************************************************************************)
(* Bounds of the model.                                                    *)
(***************************************************************************)
MaxLines   == 3   \* input lines per file
MaxLineLen == 3   \* characters of a dialogue line
EdgeWidth  == 0   \* how far around each edge value a time field is sampled
MaxEntries == 3   \* directory entries met in one batch run

(***************************************************************************)
(* Integers of the program: int is 32 bits wide.                           *)
(***************************************************************************)
IntMax == 2147483647
IntMin == (-IntMax) - 1

\* C++ integer division truncates towards zero.
Quot(a, b) == IF a >= 0 THEN a \div b ELSE -((-a) \div b)

\* a += b on int.  Signed overflow is undefined behaviour: the value stored
\* is then unspecified, sampled here by the two's complement wrap-around and
\* by both extremes of int.
AddInt(a, b) ==
    IF b > 0 /\ a > IntMax - b
    THEN {(a - IntMax - 1) + (b - IntMax - 1), IntMin, IntMax}
    ELSE IF b < 0 /\ a < IntMin - b
    THEN {(a + IntMax + 1) + (b + IntMax + 1), IntMin, IntMax}
    ELSE {a + b}

(***************************************************************************)
(* Characters and decimal conversion.                                      *)
(***************************************************************************)
\* \d of the regular expressions
IsDigit(c) == 48 <= c /\ c <= 57

RECURSIVE DecDigits(_)
DecDigits(n) ==
    IF n < 10 THEN <<48 + n>> ELSE DecDigits(n \div 10) \o <<48 + (n % 10)>>

\* std::to_wstring of an int or unsigned int
to_wstring(n) == IF n < 0 THEN <<45>> \o DecDigits(-n) ELSE DecDigits(n)

\* std::stoi of a string of decimal digits
RECURSIVE stoi(_)
stoi(s) ==
    IF Len(s) = 0 THEN 0
    ELSE 10 * stoi(SubSeq(s, 1, Len(s) - 1)) + (s[Len(s)] - 48)

\* time.substr(pos, n) and time.substr(pos), pos counted from 0
substr(s, pos, n) == SubSeq(s, pos + 1, pos + n)
substrFrom(s, pos) == SubSeq(s, pos + 1, Len(s))

(***************************************************************************)
(* The two regular expressions of convertFile.                            *)
(***************************************************************************)
\* regex_match(sLine, rgxDialogNumber) with rgxDialogNumber = \d+ : the
\* matcher consumes digits from position i and accepts at the end of the line
\* if it consumed at least one.
RECURSIVE MatchDigitsFrom(_, _, _)
MatchDigitsFrom(s, i, consumed) ==
    IF i > Len(s) THEN consumed >= 1
    ELSE IF IsDigit(s[i]) THEN MatchDigitsFrom(s, i + 1, consumed + 1)
    ELSE FALSE

rgxDialogNumberAsSearch(s) == Len(s) >= 1 /\ IsDigit(s[1])
rgxDialogNumber(s) == MatchDigitsFrom(s, 1, 0)

\* \d\d:\d\d:\d\d,\d{3} as a sequence of positions: -1 stands for \d, any
\* other entry for that literal character.
TimePattern == <<-1, -1, 58, -1, -1, 58, -1, -1, 44, -1, -1, -1>>
\* (time) --> (time)
rgxTimeFramePattern == TimePattern \o <<32, 45, 45, 62, 32>> \o TimePattern

\* regex_match(sLine, match, rgxTimeFrame); !match.empty()
rgxTimeFrame(s) ==
    /\ Len(s) = Len(rgxTimeFramePattern)
    /\ \A i \in 1..Len(s) :
          IF rgxTimeFramePattern[i] = -1 THEN IsDigit(s[i])
          ELSE s[i] = rgxTimeFramePattern[i]

\* match[1] and match[2]
matchGroup1(s) == SubSeq(s, 1, Len(TimePattern))
matchGroup2(s) == SubSeq(s, Len(s) - Len(TimePattern) + 1, Len(s))

(***************************************************************************)
(* Time conversion.                                                        *)
(***************************************************************************)
timeStringToMs(time) ==
    LET hours        == stoi(substr(time, 0, 2))
        minutes      == stoi(substr(time, 3, 2))
        seconds      == stoi(substr(time, 6, 2))
        milliseconds == stoi(substrFrom(time, 9))
    IN  hours * 3600000 + minutes * 60000 + seconds * 1000 + milliseconds

msToVttTimeStringNoMsPad(ms0) ==
    LET hours   == Quot(ms0, 3600000)
        ms1     == ms0 - hours * 3600000
        minutes == Quot(ms1, 60000)
        ms2     == ms1 - minutes * 60000
        seconds == Quot(ms2, 1000)
        ms      == ms2 - seconds * 1000
    IN  (IF hours < 10 THEN <<48>> ELSE <<>>) \o to_wstring(hours)
        \o <<58>> \o (IF minutes < 10 THEN <<48>> ELSE <<>>) \o to_wstring(minutes)
        \o <<58>> \o (IF seconds < 10 THEN <<48>> ELSE <<>>) \o to_wstring(seconds)
        \o <<46>> \o (IF ms < 10 THEN <<48>> ELSE <<>>) \o to_wstring(ms)

msToVttTimeString(ms0) ==
    LET hours   == Quot(ms0, 3600000)
        ms1     == ms0 - hours * 3600000
        minutes == Quot(ms1, 60000)
        ms2     == ms1 - minutes * 60000
        seconds == Quot(ms2, 1000)
        ms      == ms2 - seconds * 1000
    IN  (IF hours < 10 THEN <<48>> ELSE <<>>) \o to_wstring(hours)
        \o <<58>> \o (IF minutes < 10 THEN <<48>> ELSE <<>>) \o to_wstring(minutes)
        \o <<58>> \o (IF seconds < 10 THEN <<48>> ELSE <<>>) \o to_wstring(seconds)
        \o <<46>> \o (IF ms < 100 THEN <<48>> ELSE <<>>)
                  \o (IF ms < 10 THEN <<48>> ELSE <<>>) \o to_wstring(ms)

\* if (ms < 0) ms = 0;
Clamp(ms) == IF ms < 0 THEN 0 ELSE ms

\* Utils::wstr_replace(sLine, L",", L".")
wstr_replace(s, from, to) == [i \in 1..Len(s) |-> IF s[i] = from THEN to ELSE s[i]]

\* The branch taken when _timeOffsetMs != 0, for chosen results of the two
\* additions.
OffsetTimeFrameSwapped(msStart, msEnd) ==
    msToVttTimeString(Clamp(msEnd)) \o <<32, 45, 45, 62, 32>>
        \o msToVttTimeString(Clamp(msStart))
OffsetTimeFrame(msStart, msEnd) ==
    msToVttTimeString(Clamp(msStart)) \o <<32, 45, 45, 62, 32>>
        \o msToVttTimeString(Clamp(msEnd))

\* The lines the branch for _timeOffsetMs != 0 can construct from sLine.
ShiftedLines(sLine, offset) ==
    {OffsetTimeFrame(a, b) :
        a \in AddInt(timeStringToMs(matchGroup1(sLine)), offset),
        b \in AddInt(timeStringToMs(matchGroup2(sLine)), offset)}

\* The lines the time frame branch can emit for sLine.
TimeFrameLines(sLine, offset) ==
    IF offset # 0 THEN ShiftedLines(sLine, offset)
    ELSE {wstr_replace(sLine, 44, 46)}

(***************************************************************************)
(* HTML encoding of a dialogue line.                                       *)
(***************************************************************************)
\* 160 <= str[i] && str[i] <= 255
InAnsiRangeExclusive(c) == 160 < c /\ c < 255
InAnsiRange(c) == 160 <= c /\ c <= 255

\* The for loop of htmlEncodeUtf8 from index i (counted from 0) on: the
\* string is edited in place and i is advanced past the replacement.
RECURSIVE htmlEncodeFrom(_, _)
htmlEncodeFrom(str, i) ==
    IF i >= Len(str) THEN str
    ELSE IF InAnsiRange(str[i + 1])
    THEN LET replacement == <<38, 35>> \o to_wstring(str[i + 1]) \o <<59>>
             replaced == SubSeq(str, 1, i) \o replacement
                            \o SubSeq(str, i + 2, Len(str))
         IN  htmlEncodeFrom(replaced, (i + Len(replacement) - 1) + 1)
    ELSE htmlEncodeFrom(str, i + 1)

htmlEncodeUtf8(str) == htmlEncodeFrom(str, 0)

(***************************************************************************)
(* The body of the read loop of convertFile for one line: the sequences of *)
(* lines it can write, the empty sequence when the line is skipped.        *)
(***************************************************************************)
LoopBody(sLine, offset) ==
    IF rgxDialogNumber(sLine) THEN {<<>>}
    ELSE IF rgxTimeFrame(sLine)
    THEN {<<l>> : l \in TimeFrameLines(sLine, offset)}
    ELSE {<<htmlEncodeUtf8(sLine)>>}

(***************************************************************************)
(* Inputs.                                                                 *)
(***************************************************************************)
TwoDigits(n) == <<48 + (n \div 10), 48 + (n % 10)>>
ThreeDigits(n) == <<48 + (n \div 100), 48 + ((n \div 10) % 10), 48 + (n % 10)>>

\* hh:mm:ss,### of the fields f = <<hours, minutes, seconds, milliseconds>>
TimeString(f) ==
    TwoDigits(f[1]) \o <<58>> \o TwoDigits(f[2]) \o <<58>> \o TwoDigits(f[3])
        \o <<44>> \o ThreeDigits(f[4])

TimeFrameLine(f, g) == TimeString(f) \o <<32, 45, 45, 62, 32>> \o TimeString(g)

\* Values at and around v, within 0..hi
Near(v, hi) == {x \in (v - EdgeWidth)..(v + EdgeWidth) : 0 <= x /\ x <= hi}

\* Two-digit fields: the edges of the padding (9/10), of the carry (59/60)
\* and of the field (0, 99).
TwoDigitVals ==
    Near(0, 99) \cup Near(9, 99) \cup Near(10, 99) \cup Near(59, 99)
        \cup Near(60, 99) \cup Near(99, 99)

\* The millisecond field: the edges of the padding (9/10, 99/100) and of the
\* field (0, 999), and 500.
MilliVals ==
    Near(0, 999) \cup Near(9, 999) \cup Near(10, 999) \cup Near(99, 999)
        \cup Near(100, 999) \cup Near(500, 999) \cup Near(999, 999)

\* Time stamps: one field varied at a time around each of these.
BaseStamps == {<<0, 0, 0, 0>>, <<0, 0, 1, 0>>, <<99, 59, 59, 999>>}

TimeStampFields ==
    UNION {   {[b EXCEPT ![1] = v] : v \in TwoDigitVals}
         \cup {[b EXCEPT ![2] = v] : v \in TwoDigitVals}
         \cup {[b EXCEPT ![3] = v] : v \in TwoDigitVals}
         \cup {[b EXCEPT ![4] = v] : v \in MilliVals}
         : b \in BaseStamps}

\* _timeOffsetMs values: zero, small and large shifts in both directions and
\* both extremes of int.
TimeOffsets == {IntMin, -3600000, -1000, -1, 0, 1, 1000, 3600000, IntMax}

(***************************************************************************)
(* SpecTime: the time frame branch of convertFile on one time frame line.  *)
(***************************************************************************)
IdleFile ==
    /\ infile = <<>> /\ timeOffsetMs = 0 /\ inOk = TRUE /\ outOk = TRUE
    /\ pc = "idle" /\ nRead = 0 /\ outfile = <<>> /\ ret = -1
IdleLine == lnLine = <<>> /\ lnOffset = 0 /\ lnPc = "idle" /\ lnOut = <<>>
IdleTime == tfLine = <<>> /\ tfOffset = 0 /\ tfPc = "idle" /\ tfOut = <<>>
IdleDir ==
    /\ dirArg = <<>> /\ recursive = FALSE /\ outputDir = <<>> /\ outDirExists = FALSE
    /\ entriesLeft = 0 /\ stack = <<>> /\ log = <<>> /\ dPc = "idle" /\ dRet = -1

InitTime ==
    /\ tfLine \in {TimeFrameLine(f, g) : f \in TimeStampFields, g \in TimeStampFields}
    /\ tfOffset \in TimeOffsets
    /\ tfPc = "line"
    /\ tfOut = <<>>
    /\ IdleFile /\ IdleLine /\ IdleDir

\* The line matched rgxTimeFrame and _timeOffsetMs != 0: parse, shift, clamp
\* and format both ends.
ShiftTimeFrame ==
    /\ tfPc = "line"
    /\ rgxTimeFrame(tfLine)
    /\ tfOffset # 0
    /\ \E l \in TimeFrameLines(tfLine, tfOffset) : tfOut' = l
    /\ tfPc' = "emitted"
    /\ UNCHANGED <<tfLine, tfOffset, fileVars, lineVars, dirVars>>

\* The line matched rgxTimeFrame and _timeOffsetMs == 0: replace the commas.
CopyTimeFrame ==
    /\ tfPc = "line"
    /\ rgxTimeFrame(tfLine)
    /\ tfOffset = 0
    /\ \E l \in TimeFrameLines(tfLine, tfOffset) : tfOut' = l
    /\ tfPc' = "emitted"
    /\ UNCHANGED <<tfLine, tfOffset, fileVars, lineVars, dirVars>>

NextTime == ShiftTimeFrame \/ CopyTimeFrame

SpecTime == InitTime /\ [][NextTime]_vars

(***************************************************************************)
(* Reading an emitted line back, for the statements below.                 *)
(***************************************************************************)
FirstIndex(s, c) == CHOOSE i \in 1..Len(s) : s[i] = c /\ \A j \in 1..(i - 1) : s[j] # c

\* The two time stamps of an emitted time frame line: before the first and
\* after the last space.
EmittedStart(l) == SubSeq(l, 1, FirstIndex(l, 32) - 1)
EmittedEnd(l) == SubSeq(l, FirstIndex(l, 32) + 5, Len(l))

\* The milliseconds an emitted time stamp h..h:mm:ss.### denotes
VttToMs(t) ==
    LET k == FirstIndex(t, 58)
    IN  stoi(SubSeq(t, 1, k - 1)) * 3600000 + stoi(SubSeq(t, k + 1, k + 2)) * 60000
        + stoi(SubSeq(t, k + 4, k + 5)) * 1000 + stoi(SubSeq(t, k + 7, Len(t)))

ParsedStart == timeStringToMs(matchGroup1(tfLine))
ParsedEnd == timeStringToMs(matchGroup2(tfLine))

\* e = max(0, p + o) over the integers, for p >= 0, stated without forming a
\* sum beyond 32 bits
IsMaxZeroSum(e, p, o) ==
    IF o > 0 /\ p > IntMax - o THEN e - o = p
    ELSE e = (IF p + o < 0 THEN 0 ELSE p + o)

Representable(p, o) == ~(o > 0 /\ p > IntMax - o)

\* C2: for a time frame line and a non-zero offset, each emitted end is
\* max(0, parsed + offset) and no emitted time stamp is negative.
C2_ClampedShift ==
    (tfPc = "emitted" /\ tfOffset # 0) =>
        /\ IsMaxZeroSum(VttToMs(EmittedStart(tfOut)), ParsedStart, tfOffset)
        /\ IsMaxZeroSum(VttToMs(EmittedEnd(tfOut)), ParsedEnd, tfOffset)
        /\ \A i \in 1..Len(EmittedStart(tfOut)) : EmittedStart(tfOut)[i] # 45
        /\ \A i \in 1..Len(EmittedEnd(tfOut)) : EmittedEnd(tfOut)[i] # 45

\* The minutes and seconds of both time stamps of the line are at most 59.
ValidClock(l) ==
    \A t \in {matchGroup1(l), matchGroup2(l)} :
        stoi(substr(t, 3, 2)) <= 59 /\ stoi(substr(t, 6, 2)) <= 59

\* C3 as stated: for every time frame line, the zero-offset path emits what
\* the general path constructs with offset 0.
C3_FastPathEqualsGeneral ==
    (tfPc = "emitted" /\ tfOffset = 0) => ShiftedLines(tfLine, 0) = {tfOut}

\* C3 amended: the same, for lines whose minutes and seconds are at most 59.
C3_FastPathEqualsGeneralValid ==
    (tfPc = "emitted" /\ tfOffset = 0 /\ ValidClock(tfLine)) =>
        ShiftedLines(tfLine, 0) = {tfOut}

C3_Witness ==
    /\ tfPc = "emitted" /\ tfOffset = 0 /\ ValidClock(tfLine)
    /\ ParsedStart = 99 * 3600000 + 59 * 60000 + 59 * 1000 + 9
    /\ ParsedEnd = 10 * 60000

\* C9: when the parsed start is at most the parsed end and both sums are
\* representable, the emitted start is at most the emitted end.
C9_OrderPreserved ==
    (/\ tfPc = "emitted"
     /\ ParsedStart <= ParsedEnd
     /\ Representable(ParsedStart, tfOffset)
     /\ Representable(ParsedEnd, tfOffset)) =>
        VttToMs(EmittedStart(tfOut)) <= VttToMs(EmittedEnd(tfOut))

\* Only the start was floored to zero.
C9_Witness ==
    /\ tfPc = "emitted"
    /\ ParsedStart < ParsedEnd
    /\ tfOffset < 0
    /\ ParsedStart + tfOffset < 0
    /\ ParsedEnd + tfOffset > 0
    /\ VttToMs(EmittedStart(tfOut)) = 0
    /\ VttToMs(EmittedEnd(tfOut)) = ParsedEnd + tfOffset

(***************************************************************************)
(* SpecLine: the body of the read loop of convertFile on one line.         *)
(***************************************************************************)
\* Characters of the sampled lines: a digit, a space, the characters HTML
\* gives a meaning (" & < >), and the codes at and next to both ends of the
\* encoded range.
LineChars == {52, 32, 34, 38, 60, 62, 159, 160, 233, 255, 256}

CharLines == UNION {[1..n -> LineChars] : n \in 0..MaxLineLen}

SampleTimeFrames ==
    {TimeFrameLine(<<0, 0, 0, 500>>, <<0, 0, 2, 500>>),
     TimeFrameLine(<<0, 0, 1, 0>>, <<99, 99, 99, 999>>)}

InitLine ==
    /\ lnLine \in CharLines \cup SampleTimeFrames
    /\ lnOffset \in {0, -1000}
    /\ lnPc = "line"
    /\ lnOut = <<>>
    /\ IdleFile /\ IdleTime /\ IdleDir

\* if (regex_match(sLine, rgxDialogNumber)) continue;
SkipDialogNumber ==
    /\ lnPc = "line"
    /\ rgxDialogNumber(lnLine)
    /\ lnOut' \in LoopBody(lnLine, lnOffset)
    /\ lnPc' = "done"
    /\ UNCHANGED <<lnLine, lnOffset, fileVars, timeVars, dirVars>>

\* the time frame branch, then outfile << sLine << endl
EmitTimeFrame ==
    /\ lnPc = "line"
    /\ ~rgxDialogNumber(lnLine)
    /\ rgxTimeFrame(lnLine)
    /\ lnOut' \in LoopBody(lnLine, lnOffset)
    /\ lnPc' = "done"
    /\ UNCHANGED <<lnLine, lnOffset, fileVars, timeVars, dirVars>>

\* htmlEncodeUtf8(sLine), then outfile << sLine << endl
EmitDialogue ==
    /\ lnPc = "line"
    /\ ~rgxDialogNumber(lnLine)
    /\ ~rgxTimeFrame(lnLine)
    /\ lnOut' \in LoopBody(lnLine, lnOffset)
    /\ lnPc' = "done"
    /\ UNCHANGED <<lnLine, lnOffset, fileVars, timeVars, dirVars>>

NextLine == SkipDialogNumber \/ EmitTimeFrame \/ EmitDialogue

SpecLine == InitLine /\ [][NextLine]_vars

\* The whole line is one or more decimal digits.
DigitsOnly(s) == Len(s) >= 1 /\ \A i \in 1..Len(s) : s[i] \in 48..57

\* The text a character is to become: &#<code>; for the codes 160..255, the
\* character itself otherwise.
EscapedChar(c) ==
    IF c \in 160..255 THEN <<38, 35>> \o ThreeDigits(c) \o <<59>> ELSE <<c>>

RECURSIVE EscapedText(_)
EscapedText(s) ==
    IF s = <<>> THEN <<>> ELSE EscapedChar(Head(s)) \o EscapedText(Tail(s))

\* C4: a line that is neither an index line nor a time frame line is emitted
\* with each character of code 160..255 replaced by &#<code>; and every
\* other character unchanged and in place.
C4_HtmlEncoding ==
    (lnPc = "done" /\ ~DigitsOnly(lnLine) /\ ~rgxTimeFrame(lnLine)) =>
        lnOut = <<EscapedText(lnLine)>>

\* Two adjacent characters of the range between characters just outside it.
C4_Witness ==
    /\ lnPc = "done"
    /\ Len(lnLine) >= 3
    /\ lnLine[1] = 159 /\ lnLine[2] = 160 /\ lnLine[3] = 255
    /\ lnOut = <<<<159, 38, 35, 49, 54, 48, 59, 38, 35, 50, 53, 53, 59>>
                  \o SubSeq(lnLine, 4, Len(lnLine))>>

\* C5: a line is omitted from the output exactly when the whole line is one
\* or more decimal digits.
C5_OmittedIffDigits ==
    (lnPc = "done") => ((lnOut = <<>>) <=> DigitsOnly(lnLine))

\* A line that starts with a digit and goes on with a space is emitted.
C5_Witness ==
    /\ lnPc = "done"
    /\ Len(lnLine) >= 2 /\ lnLine[1] = 52 /\ lnLine[2] = 32
    /\ Len(lnOut) = 1

(***************************************************************************)
(* Spec: Converter::convertFile, from the try block on.                    *)
(***************************************************************************)
FileLines ==
    {<<>>, <<52, 50>>, <<52, 50, 32, 100>>, <<99, 97, 102, 233>>}
        \cup SampleTimeFrames

FileOffsets == {0, -1000, IntMax}

Init ==
    /\ infile \in UNION {[1..n -> FileLines] : n \in 0..MaxLines}
    /\ timeOffsetMs \in FileOffsets
    /\ inOk \in BOOLEAN
    /\ outOk \in BOOLEAN
    /\ pc = "try"
    /\ nRead = 0
    /\ outfile = <<>>
    /\ ret = -1
    /\ IdleLine /\ IdleTime /\ IdleDir

\* Utils::formatInStream(infile, filepath) raises an exception when the input
\* cannot be opened.
formatInStreamThrows(ok) == ~ok

\* outfile << ... << endl: a stream that failed to open drops what is written
WritePrepend(file, ok, ls) == IF ok THEN ls \o file ELSE file
Write(file, ok, ls) == IF ok THEN file \o ls ELSE file

\* "WEBVTT" << endl << endl
Header == <<<<87, 69, 66, 86, 84, 84>>, <<>>>>

\* The streams are constructed and the header is written.
OpenStreams ==
    /\ pc = "try"
    /\ ~formatInStreamThrows(inOk)
    /\ outfile' = Write(outfile, outOk, Header)
    /\ pc' = "loop"
    /\ UNCHANGED <<infile, timeOffsetMs, inOk, outOk, nRead, ret,
                   lineVars, timeVars, dirVars>>

\* An exception leaves the try block: catch, report, return 1.
CatchException ==
    /\ pc = "try"
    /\ formatInStreamThrows(inOk)
    /\ ret' = 1
    /\ pc' = "done"
    /\ UNCHANGED <<infile, timeOffsetMs, inOk, outOk, nRead, outfile,
                   lineVars, timeVars, dirVars>>

\* One turn of the read loop: getline delivers the next line, the body
\* skips, converts or encodes it and writes the result.
ReadLine ==
    /\ pc = "loop"
    /\ nRead < Len(infile)
    /\ nRead' = nRead + 1
    /\ \E ls \in LoopBody(infile[nRead + 1], timeOffsetMs) :
          outfile' = Write(outfile, outOk, ls)
    /\ UNCHANGED <<infile, timeOffsetMs, inOk, outOk, pc, ret,
                   lineVars, timeVars, dirVars>>

\* getline fails at the end of the input: break, print "Done!", return 0.
ReturnDone ==
    /\ pc = "loop"
    /\ nRead = Len(infile)
    /\ ret' = 0
    /\ pc' = "done"
    /\ UNCHANGED <<infile, timeOffsetMs, inOk, outOk, nRead, outfile,
                   lineVars, timeVars, dirVars>>

Next == OpenStreams \/ CatchException \/ ReadLine \/ ReturnDone

Spec == Init /\ [][Next]_vars

\* The input lines that are not index lines, in order
NonIndexLines == SelectSeq(infile, LAMBDA l : ~DigitsOnly(l))

\* C1: the output is WEBVTT, an empty line, and then one line for each input
\* line that is not an index line, in the order of the input.
C1_OutputMirrorsInput ==
    (pc = "done" /\ ret = 0 /\ outOk) =>
        /\ Len(outfile) = 2 + Len(NonIndexLines)
        /\ outfile[1] = <<87, 69, 66, 86, 84, 84>>
        /\ outfile[2] = <<>>
        /\ \A k \in 1..Len(NonIndexLines) :
              <<outfile[2 + k]>> \in LoopBody(NonIndexLines[k], timeOffsetMs)

\* An index line between a time frame line and a dialogue line.
C1_Witness ==
    /\ pc = "done" /\ ret = 0 /\ outOk
    /\ Len(infile) = 3
    /\ rgxTimeFrame(infile[1]) /\ DigitsOnly(infile[2]) /\ infile[3] = <<99, 97, 102, 233>>
    /\ Len(outfile) = 4
    /\ outfile[4] = <<99, 97, 102, 38, 35, 50, 51, 51, 59>>

\* C6: when the input cannot be opened or the output cannot be created,
\* convertFile returns 1.
C6_OpenFailureReturnsOne ==
    (pc = "done" /\ (~inOk \/ ~outOk)) => ret = 1

(***************************************************************************)
(* Paths and names (std::string).                                          *)
(***************************************************************************)
\* DIR_SEPARATOR outside Windows
DIR_SEPARATOR == <<"/">>

\* Utils::rtrim(str, c): strip the trailing characters c
RECURSIVE rtrim(_, _)
rtrim(str, c) ==
    IF Len(str) > 0 /\ str[Len(str)] = c
    THEN rtrim(SubSeq(str, 1, Len(str) - 1), c)
    ELSE str

StripSlashes(path) == rtrim(rtrim(path, "/"), "\\")

\* str.find_last_of(c), counted from 0; npos is -1, so that npos + 1 is 0 as
\* it is in size_t arithmetic
find_last_of(str, c) ==
    IF \E i \in 1..Len(str) : str[i] = c
    THEN (CHOOSE i \in 1..Len(str) : str[i] = c /\ \A j \in (i + 1)..Len(str) : str[j] # c) - 1
    ELSE -1

\* item.substr(item.find_last_of(".") + 1)
ExtOf(item) == SubSeq(item, find_last_of(item, ".") + 2, Len(item))

\* ext == "srt" || ext == "SRT"
IsSrtExt(ext) == ext = <<"s", "r", "t">> \/ ext = <<"S", "R", "T">>

tolower(c) ==
    CASE c = "S" -> "s" [] c = "R" -> "r" [] c = "T" -> "t" [] OTHER -> c

\* regex_replace(filepath, regex("\\.srt$", icase), "")
StripSrtSuffix(filepath) ==
    IF /\ Len(filepath) >= 4
       /\ [i \in 1..4 |-> tolower(filepath[Len(filepath) - 4 + i])] = <<".", "s", "r", "t">>
    THEN SubSeq(filepath, 1, Len(filepath) - 4)
    ELSE filepath

\* path.substr(path.find_last_of(DIR_SEPARATOR) + 1)
BaseName(path) == SubSeq(path, find_last_of(path, "/") + 2, Len(path))

\* The output path convertFile determines for filepath
OutPathBaseOnly(filepath, outDir) ==
    IF outDir # <<>>
    THEN outDir \o DIR_SEPARATOR \o BaseName(StripSrtSuffix(filepath) \o <<".", "v", "t", "t">>)
    ELSE BaseName(StripSrtSuffix(filepath) \o <<".", "v", "t", "t">>)
OutPath(filepath, outDir) ==
    IF outDir # <<>>
    THEN outDir \o DIR_SEPARATOR \o BaseName(StripSrtSuffix(filepath) \o <<".", "v", "t", "t">>)
    ELSE StripSrtSuffix(filepath) \o <<".", "v", "t", "t">>

(***************************************************************************)
(* SpecDir: Converter::convertDirectory.                                   *)
(***************************************************************************)
\* Directory entries (d_name, d_type) a directory may hold, in the order
\* readdir delivers them
Catalogue ==
    <<[name |-> <<"a", ".", "s", "r", "t">>, type |-> "DT_REG"],
      [name |-> <<"s", "u", "b">>, type |-> "DT_DIR"],
      [name |-> <<"a", ".", "S", "R", "T">>, type |-> "DT_REG"],
      [name |-> <<"a", ".", "S", "r", "t">>, type |-> "DT_REG"],
      [name |-> <<".">>, type |-> "DT_DIR"],
      [name |-> <<"a", ".", "t", "x", "t">>, type |-> "DT_REG"],
      [name |-> <<"b", ".", "s", "r", "t">>, type |-> "DT_LNK"],
      [name |-> <<"d", ".", "s", "r", "t">>, type |-> "DT_DIR"],
      [name |-> <<"s", "r", "t">>, type |-> "DT_REG"],
      [name |-> <<"x">>, type |-> "DT_REG"],
      [name |-> <<"c", ".", "s", "r", "t">>, type |-> "DT_FIFO"],
      [name |-> <<".", ".">>, type |-> "DT_DIR"]>>

RECURSIVE EntriesAt(_)
EntriesAt(S) ==
    IF S = {} THEN <<>>
    ELSE LET m == CHOOSE i \in S : \A j \in S : i <= j
         IN  <<Catalogue[m]>> \o EntriesAt(S \ {m})

\* What readdir can deliver for one directory: entries of distinct names
Listings ==
    {EntriesAt(S) : S \in {T \in SUBSET (1..Len(Catalogue)) : Cardinality(T) <= MaxEntries}}

\* The constructor strips the trailing slashes of the output directory.
InitDir ==
    /\ dirArg \in {<<"d">>, <<"d", "/">>}
    /\ recursive \in BOOLEAN
    /\ outputDir \in {StripSlashes(o) : o \in {<<>>, <<"o">>, <<"o", "/">>}}
    /\ outDirExists \in BOOLEAN
    /\ entriesLeft = MaxEntries
    /\ stack = <<>>
    /\ log = <<>>
    /\ dPc = "call"
    /\ dRet = -1
    /\ IdleFile /\ IdleLine /\ IdleTime

Event(kind, path, out, rc, listing) ==
    [kind |-> kind, path |-> path, out |-> out, rc |-> rc, listing |-> listing]

Frame(dirpath, listing) == [dirpath |-> dirpath, todo |-> listing, nRetCodes |-> 0]

Top == stack[Len(stack)]
SetTop(f) == [stack EXCEPT ![Len(stack)] = f]

\* The loop goes on to the next entry with rc added to nRetCodes.
AdvanceStopOnFailure(f, rc) ==
    [f EXCEPT !.todo = IF rc # 0 THEN <<>> ELSE Tail(@), !.nRetCodes = @ + rc]
Advance(f, rc) == [f EXCEPT !.todo = Tail(@), !.nRetCodes = @ + rc]

\* return nRetCodes ? 1 : 0
ReturnCode(n) == IF n # 0 THEN 1 ELSE 0

\* The outermost call: strip the slashes, opendir; a directory that cannot be
\* read returns 1 at once.
CallConvertDirectory ==
    /\ dPc = "call"
    /\ LET dirpath == StripSlashes(dirArg) IN
          \/ /\ log' = Append(log, Event("opendir", dirpath, <<>>, 1, <<>>))
             /\ dRet' = 1
             /\ dPc' = "done"
             /\ UNCHANGED <<stack, entriesLeft>>
          \/ \E l \in Listings :
                /\ Len(l) <= entriesLeft
                /\ entriesLeft' = entriesLeft - Len(l)
                /\ log' = Append(log, Event("opendir", dirpath, <<>>, 0, l))
                /\ stack' = <<Frame(dirpath, l)>>
                /\ dPc' = "loop"
                /\ UNCHANGED dRet
    /\ UNCHANGED <<dirArg, recursive, outputDir, outDirExists,
                   fileVars, lineVars, timeVars>>

\* readdir delivers a regular file or a symbolic link: convertFile if the
\* extension is srt or SRT.  convertFile creates the output directory when it
\* is missing and returns 1 when an exception was caught, 0 otherwise.
ReadFileEntry ==
    /\ dPc = "loop"
    /\ Top.todo # <<>>
    /\ Head(Top.todo).type \in {"DT_LNK", "DT_REG"}
    /\ LET item == Head(Top.todo).name
           filepath == Top.dirpath \o DIR_SEPARATOR \o item
       IN  IF IsSrtExt(ExtOf(item))
           THEN \E rc \in {0, 1} :
                   /\ log' = Append(log, Event("convertFile", filepath,
                                               OutPath(filepath, outputDir), rc, <<>>))
                   /\ stack' = SetTop(Advance(Top, rc))
                   /\ outDirExists' = (outDirExists \/ outputDir # <<>>)
           ELSE /\ stack' = SetTop(Advance(Top, 0))
                /\ UNCHANGED <<log, outDirExists>>
    /\ UNCHANGED <<dirArg, recursive, outputDir, entriesLeft, dPc, dRet,
                   fileVars, lineVars, timeVars>>

\* readdir delivers a directory: when recursive and the name is neither . nor
\* .., convertDirectory is called on it; it returns 1 at once when opendir
\* fails and runs its own loop otherwise.
ReadDirEntry ==
    /\ dPc = "loop"
    /\ Top.todo # <<>>
    /\ Head(Top.todo).type = "DT_DIR"
    /\ LET item == Head(Top.todo).name
           subdir == StripSlashes(Top.dirpath \o DIR_SEPARATOR \o item)
       IN  IF recursive /\ item # <<".">> /\ item # <<".", ".">>
           THEN \/ /\ log' = Append(log, Event("opendir", subdir, <<>>, 1, <<>>))
                   /\ stack' = SetTop(Advance(Top, 1))
                   /\ UNCHANGED entriesLeft
                \/ \E l \in Listings :
                      /\ Len(l) <= entriesLeft
                      /\ entriesLeft' = entriesLeft - Len(l)
                      /\ log' = Append(log, Event("opendir", subdir, <<>>, 0, l))
                      /\ stack' = Append(SetTop(Advance(Top, 0)), Frame(subdir, l))
           ELSE /\ stack' = SetTop(Advance(Top, 0))
                /\ UNCHANGED <<log, entriesLeft>>
    /\ UNCHANGED <<dirArg, recursive, outputDir, outDirExists, dPc, dRet,
                   fileVars, lineVars, timeVars>>

\* readdir delivers an entry of any other type: nothing is done with it.
ReadOtherEntry ==
    /\ dPc = "loop"
    /\ Top.todo # <<>>
    /\ Head(Top.todo).type \notin {"DT_LNK", "DT_REG", "DT_DIR"}
    /\ stack' = SetTop(Advance(Top, 0))
    /\ UNCHANGED <<dirArg, recursive, outputDir, outDirExists, entriesLeft, log,
                   dPc, dRet, fileVars, lineVars, timeVars>>

\* readdir delivers NULL: closedir and return; the caller adds the value to
\* its nRetCodes.
ReturnFromDirectory ==
    /\ dPc = "loop"
    /\ Top.todo = <<>>
    /\ LET r == ReturnCode(Top.nRetCodes)
           callers == SubSeq(stack, 1, Len(stack) - 1)
       IN  IF callers = <<>>
           THEN /\ stack' = <<>>
                /\ dRet' = r
                /\ dPc' = "done"
           ELSE /\ stack' = [callers EXCEPT ![Len(callers)].nRetCodes = @ + r]
                /\ UNCHANGED <<dRet, dPc>>
    /\ UNCHANGED <<dirArg, recursive, outputDir, outDirExists, entriesLeft, log,
                   fileVars, lineVars, timeVars>>

NextDir ==
    \/ CallConvertDirectory
    \/ ReadFileEntry
    \/ ReadDirEntry
    \/ ReadOtherEntry
    \/ ReturnFromDirectory

SpecDir == InitDir /\ [][NextDir]_vars

(***************************************************************************)
(* Statements about a batch run.                                           *)
(***************************************************************************)
Events(kind) == {i \in 1..Len(log) : log[i].kind = kind}

\* The directories the run has opened
Opened == {i \in Events("opendir") : log[i].rc = 0}

Converted(path) == \E i \in Events("convertFile") : log[i].path = path
OpenAttempted(path) == \E i \in Events("opendir") : log[i].path = path

\* The name ends in a dot followed by srt or by SRT.
HasSrtExtension(name) ==
    /\ Len(name) >= 4
    /\ SubSeq(name, Len(name) - 3, Len(name)) \in
          {<<".", "s", "r", "t">>, <<".", "S", "R", "T">>}

IsDotName(name) == name = <<".">> \/ name = <<".", ".">>

\* C7: a failed conversion does not stop the run: every regular file or link
\* named *.srt or *.SRT of every directory the run opened is converted and
\* every subdirectory of a recursive run is tried, and the call returns 1
\* exactly when a conversion failed or a directory could not be opened, 0
\* otherwise.
C7_BatchContinuesAndAggregates ==
    (dPc = "done") =>
        /\ \A d \in Opened : \A k \in 1..Len(log[d].listing) :
              LET e == log[d].listing[k]
                  path == log[d].path \o <<"/">> \o e.name
              IN  /\ (e.type \in {"DT_REG", "DT_LNK"} /\ HasSrtExtension(e.name))
                        => Converted(path)
                  /\ (e.type = "DT_DIR" /\ recursive /\ ~IsDotName(e.name))
                        => OpenAttempted(path)
        /\ dRet \in {0, 1}
        /\ (dRet = 1) <=> (\E i \in 1..Len(log) : log[i].rc # 0)

\* A conversion fails, a later one succeeds, and the run returns 1.
C7_Witness ==
    /\ dPc = "done" /\ dRet = 1
    /\ \E i, j \in Events("convertFile") : i < j /\ log[i].rc = 1 /\ log[j].rc = 0

\* C8: an entry is converted exactly when it is a regular file or a link
\* whose name ends in .srt or .SRT, and a subdirectory is entered exactly when
\* the run is recursive and its name is neither . nor ..
C8_ConvertedIffSrtFile ==
    (dPc = "done") =>
        \A d \in Opened : \A k \in 1..Len(log[d].listing) :
            LET e == log[d].listing[k]
                path == log[d].path \o <<"/">> \o e.name
            IN  /\ Converted(path) <=>
                      (e.type \in {"DT_REG", "DT_LNK"} /\ HasSrtExtension(e.name))
                /\ OpenAttempted(path) <=>
                      (e.type = "DT_DIR" /\ recursive /\ ~IsDotName(e.name))

\* C10 as stated: two distinct converted input files are never written to
\* the same output path.
C10_DistinctOutputs ==
    \A i, j \in Events("convertFile") :
        log[i].path # log[j].path => log[i].out # log[j].out

Last4(path) == SubSeq(path, Len(path) - 3, Len(path))
DirName(path) == SubSeq(path, 1, find_last_of(path, "/"))

\* Both paths end in .srt or both end in .SRT.
SameCasedExtension(p, q) ==
    /\ HasSrtExtension(p) /\ HasSrtExtension(q)
    /\ Last4(p) = Last4(q)

\* C10 amended: two distinct converted input files whose names end in the
\* same casing of the extension are never written to the same output path
\* when no output directory is set or when both lie in the same directory.
C10_DistinctOutputsSameCasing ==
    \A i, j \in Events("convertFile") :
        (/\ log[i].path # log[j].path
         /\ SameCasedExtension(log[i].path, log[j].path)
         /\ (outputDir = <<>> \/ DirName(log[i].path) = DirName(log[j].path)))
            => log[i].out # log[j].out

\* Files of the same name in two directories, converted without an output
\* directory.
C10_Witness ==
    /\ outputDir = <<>>
    /\ \E i, j \in Events("convertFile") :
          /\ i # j
          /\ BaseName(log[i].path) = BaseName(log[j].path)
          /\ SameCasedExtension(log[i].path, log[j].path)
          /\ log[i].out # log[j].out

====
